---- MODULE Spec2Model ----
(***************************************************************************)
(* A model of the TAPL exercises in rust/: the simply typed lambda         *)
(* calculus of 04_simply_typed_lambda (scope resolver, shifting and        *)
(* substitution visitors, eval1/eval) and the typed arithmetic evaluator   *)
(* of 03_typed_arith.                                                      *)
(*                                                                         *)
(* Terms, types and results are tagged tuples: <<"TmSucc", t>>,            *)
(* <<"TmAbs", ty, body>>, <<"Ok", t>>, <<"Err", "NoRuleApplies">> ...      *)
(***************************************************************************)
EXTENDS Integers, Sequences, FiniteSets, TLC

VARIABLES
    term,             \* the Term the last operation was applied to
    ast_term,         \* the ASTTerm handed to Parser::from_ast_term
    context,          \* Parser.context.inner, most recent binding first
    saved,            \* Parser.context.inner when the last parse was entered
    op,               \* the last operation performed
    result,           \* what the last operation returned
    overflow_checks,  \* build profile: TRUE = debug (overflow panics), FALSE = release (wraps)
    input,            \* the &str handed to a nom parser, as its tokens
    body_ref          \* the Term behind the &mut handed to substitution / visit_term

vars == <<term, ast_term, context, saved, op, result, overflow_checks, input, body_ref>>

(***************************************************************************)
(* Bounds of the model.                                                    *)
(***************************************************************************)
MaxSize == 4        \* nodes of a Term drawn as input of the evaluator
MaxPart == 2        \* nodes of the body and of the argument of a drawn redex
MaxVar == 1         \* largest de Bruijn index written in a drawn Term
MaxAstSize == 3     \* nodes of an ASTTerm handed to the resolver
MaxNames == 2       \* how many identifiers of the alphabet the ASTs use
MaxArithSize == 4   \* nodes of a typed-arith Term
MaxTokens == 4      \* tokens of a type annotation handed to parse_type

\* usize arithmetic wraps modulo 2^64 (or 2^32); TLC integers are 32 bits wide,
\* so the modulus is scaled to 2^30: only "0 - 1 wraps to the largest index"
\* and "largest index + 1 wraps to 0" are observable in the model.
UsizeModulus == 2^30

(***************************************************************************)
(* typing.rs: enum Type. Arrow is the spec's third variant (spec.md 3).    *)
(***************************************************************************)
Boolean == <<"Boolean">>
Number == <<"Number">>
Arrow(domain, codomain) == <<"Arrow", domain, codomain>>

\* The types the type parser can produce for an annotation.
ParamTypes == {Boolean, Number}

(***************************************************************************)
(* parser.rs: enum Term (with the TmIf variant eval.rs and substitute.rs   *)
(* match on).                                                              *)
(***************************************************************************)
TmTrue == <<"TmTrue">>
TmFalse == <<"TmFalse">>
TmZero == <<"TmZero">>
TmSucc(t) == <<"TmSucc", t>>
TmVar(n) == <<"TmVar", n>>
TmAbs(ty, body) == <<"TmAbs", ty, body>>
TmApp(t1, t2) == <<"TmApp", t1, t2>>
TmIf(a, b, c) == <<"TmIf", a, b, c>>

IsConst(t) == t[1] \in {"TmTrue", "TmFalse", "TmZero"}

\* Outcomes of an operation.
Ok(v) == <<"Ok", v>>
Err(e) == <<"Err", e>>
Panic == <<"Panic">>          \* the thread panicked (unreachable!, overflow check)
Unit == <<"Unit">>            \* the arm evaluates to (): no Term, no error
NoReturn == <<"NoReturn">>    \* the call never returns
None == <<"None">>

IsOk(r) == r[1] = "Ok"

(***************************************************************************)
(* The bounded input sets.                                                 *)
(***************************************************************************)
Leaves == {TmTrue, TmFalse, TmZero} \cup {TmVar(n) : n \in 0..MaxVar}

RECURSIVE TermsOfSize(_)
TermsOfSize(n) ==
    IF n < 1 THEN {}
    ELSE IF n = 1 THEN Leaves
    ELSE {TmSucc(t) : t \in TermsOfSize(n - 1)}
         \cup {TmAbs(ty, b) : ty \in ParamTypes, b \in TermsOfSize(n - 1)}
         \cup UNION {{TmApp(a, b) : a \in TermsOfSize(i), b \in TermsOfSize(n - 1 - i)}
                        : i \in 1..(n - 2)}
         \cup UNION {UNION {{TmIf(a, b, c) : a \in TermsOfSize(i), b \in TermsOfSize(j),
                                              c \in TermsOfSize(n - 1 - i - j)}
                               : j \in 1..(n - 2 - i)}
                        : i \in 1..(n - 3)}

TermsUpTo(n) == UNION {TermsOfSize(k) : k \in 1..n}

\* Applications of an abstraction: the terms the beta rule is about.
Redexes == {TmApp(TmAbs(ty, b), v) : ty \in ParamTypes, b \in TermsUpTo(MaxPart),
                                     v \in TermsUpTo(MaxPart)}

\* Conditionals over leaves, and the terms one congruence step away from
\* them: a conditional as the guard of a conditional, and as either side of
\* an application.
GroundLeaves == {TmTrue, TmFalse, TmZero, TmVar(0)}

Conditionals ==
    {TmIf(c, a, b) : c \in GroundLeaves, a \in GroundLeaves, b \in GroundLeaves}

NestedIfs ==
    {TmIf(g, a, b) : g \in Conditionals, a \in GroundLeaves, b \in GroundLeaves}

\* A conditional with a constant guard and a conditional as a branch.
BranchIfs ==
    {TmIf(c, g, b) : c \in {TmTrue, TmFalse}, g \in Conditionals, b \in GroundLeaves}
        \cup {TmIf(c, a, g) : c \in {TmTrue, TmFalse}, a \in GroundLeaves, g \in Conditionals}

Applications ==
    {TmApp(f, a) : f \in Conditionals, a \in GroundLeaves}
        \cup {TmApp(a, f) : a \in GroundLeaves, f \in Conditionals}

\* lambda x:Bool. if x then 0 else succ(0)
ScenarioB == TmAbs(Boolean, TmIf(TmVar(0), TmZero, TmSucc(TmZero)))

InputTerms ==
    TermsUpTo(MaxSize) \cup Redexes \cup NestedIfs \cup BranchIfs \cup Applications
        \cup {ScenarioB}

(***************************************************************************)
(* substitute.rs: Shifting (a MutVisitor walking the term with a cutoff).  *)
(***************************************************************************)
\* A faulty ShiftingNew: the direction asked for is dropped and the
\* Default one (Up) kept.
ShiftingNewAlwaysUp(direction) == [cutoff |-> 0, direction |-> "Up"]

\* Shifting::new(direction)
ShiftingNew(direction) == [cutoff |-> 0, direction |-> direction]

\* Shifting::visit_var on TmVar(n): *n += 1 / *n -= 1 on a usize.
ShiftingVisitVar(n, cutoff, direction) ==
    IF n >= cutoff
    THEN IF direction = "Up"
         THEN IF n + 1 = UsizeModulus
              THEN (IF overflow_checks THEN Panic ELSE TmVar(0))
              ELSE TmVar(n + 1)
         ELSE IF n = 0
              THEN (IF overflow_checks THEN Panic ELSE TmVar(UsizeModulus - 1))
              ELSE TmVar(n - 1)
    ELSE TmVar(n)

\* walk_mut_term with the Shifting visitor; a panic in a child unwinds the walk.
RECURSIVE ShiftingVisitTerm(_, _, _)
ShiftingVisitTerm(t, cutoff, direction) ==
    CASE IsConst(t) -> t
      [] t[1] = "TmSucc" ->
            LET a == ShiftingVisitTerm(t[2], cutoff, direction)
            IN  IF a = Panic THEN Panic ELSE TmSucc(a)
      [] t[1] = "TmVar" -> ShiftingVisitVar(t[2], cutoff, direction)
      [] t[1] = "TmAbs" ->
            LET b == ShiftingVisitTerm(t[3], cutoff + 1, direction)
            IN  IF b = Panic THEN Panic ELSE TmAbs(t[2], b)
      [] t[1] = "TmApp" ->
            LET a == ShiftingVisitTerm(t[2], cutoff, direction)
            IN  IF a = Panic THEN Panic
                ELSE LET b == ShiftingVisitTerm(t[3], cutoff, direction)
                     IN  IF b = Panic THEN Panic ELSE TmApp(a, b)
      [] t[1] = "TmIf" ->
            LET a == ShiftingVisitTerm(t[2], cutoff, direction)
            IN  IF a = Panic THEN Panic
                ELSE LET b == ShiftingVisitTerm(t[3], cutoff, direction)
                     IN  IF b = Panic THEN Panic
                         ELSE LET c == ShiftingVisitTerm(t[4], cutoff, direction)
                              IN  IF c = Panic THEN Panic ELSE TmIf(a, b, c)

\* Shifting::new(direction).visit_term(&mut t): the term left in t, or Panic.
Shift(t, direction) ==
    LET s == ShiftingNew(direction)
    IN  ShiftingVisitTerm(t, s.cutoff, s.direction)

(***************************************************************************)
(* substitute.rs: Substitution.                                            *)
(***************************************************************************)
\* A faulty SubstitutionVisitVar: a variable at or above the cutoff is kept
\* instead of being overwritten with the term.
SubstitutionVisitVarKept(n, cutoff, val) ==
    IF n >= cutoff THEN TmVar(n) ELSE Panic

\* Substitution::visit_var: a variable at or above the cutoff becomes the
\* term, any other variable reaches unreachable!().
SubstitutionVisitVar(n, cutoff, val) ==
    IF n >= cutoff THEN val ELSE Panic

\* A faulty SubstitutionAbsCutoff: the cutoff is not raised under a binder.
SubstitutionAbsCutoffKept(cutoff) == cutoff

\* Substitution::visit_abs: self.cutoff += 1 around the walk of the body.
SubstitutionAbsCutoff(cutoff) == cutoff + 1

RECURSIVE SubstitutionVisitTerm(_, _, _)
SubstitutionVisitTerm(t, cutoff, val) ==
    CASE IsConst(t) -> t
      [] t[1] = "TmSucc" ->
            LET a == SubstitutionVisitTerm(t[2], cutoff, val)
            IN  IF a = Panic THEN Panic ELSE TmSucc(a)
      [] t[1] = "TmVar" -> SubstitutionVisitVar(t[2], cutoff, val)
      [] t[1] = "TmAbs" ->
            LET b == SubstitutionVisitTerm(t[3], SubstitutionAbsCutoff(cutoff), val)
            IN  IF b = Panic THEN Panic ELSE TmAbs(t[2], b)
      [] t[1] = "TmApp" ->
            LET a == SubstitutionVisitTerm(t[2], cutoff, val)
            IN  IF a = Panic THEN Panic
                ELSE LET b == SubstitutionVisitTerm(t[3], cutoff, val)
                     IN  IF b = Panic THEN Panic ELSE TmApp(a, b)
      [] t[1] = "TmIf" ->
            LET a == SubstitutionVisitTerm(t[2], cutoff, val)
            IN  IF a = Panic THEN Panic
                ELSE LET b == SubstitutionVisitTerm(t[3], cutoff, val)
                     IN  IF b = Panic THEN Panic
                         ELSE LET c == SubstitutionVisitTerm(t[4], cutoff, val)
                              IN  IF c = Panic THEN Panic ELSE TmIf(a, b, c)

\* Substitution::new(term)
SubstitutionNew(val) == [cutoff |-> 0, term |-> val]

\* Substitution::new(val).visit_term(&mut body): what is left in body.
SubstitutionVisit(val, body) ==
    LET s == SubstitutionNew(val)
    IN  SubstitutionVisitTerm(body, s.cutoff, s.term)

\* pub fn substitution(mut val: Term, body: &mut Term): what is left in body.
substitution(val, body) ==
    LET v1 == Shift(val, "Up")
    IN  IF v1 = Panic THEN Panic
        ELSE LET b1 == SubstitutionVisit(v1, body)
             IN  IF b1 = Panic THEN Panic ELSE Shift(b1, "Down")

(***************************************************************************)
(* eval.rs: eval1 and eval.                                                *)
(***************************************************************************)
\* A faulty Eval1IfGuard: the evaluated guard is returned without the
\* conditional around it.
Eval1IfGuardBare(r, then_term, else_term) == r

\* The TmIf arm once the guard is neither TmTrue nor TmFalse: the guard is
\* evaluated and the conditional rebuilt around it; `?` returns a failure.
Eval1IfGuard(r, then_term, else_term) ==
    IF IsOk(r) THEN Ok(TmIf(r[2], then_term, else_term)) ELSE r

\* The TmApp arm: `if left.as_ref() == &Term::TmAbs(name, typ, body) {}` has
\* an empty block and no else: whatever left is, the arm is (), it calls
\* nothing and builds no Term.
Eval1App(left, right) == Unit

RECURSIVE eval1(_), eval(_)
eval1(t) ==
    CASE t[1] = "TmIf" ->
            IF t[2] = TmTrue THEN Ok(t[3])
            ELSE IF t[2] = TmFalse THEN Ok(t[4])
            ELSE Eval1IfGuard(eval(t[2]), t[3], t[4])
      [] t[1] = "TmApp" -> Eval1App(t[2], t[3])
      [] OTHER -> Err("NoRuleApplies")

\* pub fn eval: `let term = eval1(ctx, term)?; Ok(term)`: one call of eval1,
\* whose failure `?` returns and whose term is returned as the success.
eval(t) ==
    LET r == eval1(t)
    IN  IF IsOk(r) THEN Ok(r[2]) ELSE r

(***************************************************************************)
(* typing.rs: type_of, which the file holds inside a block comment. Its    *)
(* match has arms for the constants and TmSucc only.                       *)
(***************************************************************************)
NoArm == <<"NoArm">>          \* the match has no arm for the term

RECURSIVE type_of(_)
type_of(t) ==
    CASE t \in {TmTrue, TmFalse} -> Ok(Boolean)
      [] t = TmZero -> Ok(Number)
      [] t[1] = "TmSucc" ->
            IF type_of(t[2]) = Ok(Number)
            THEN Ok(Number)
            ELSE Err("ParameterTypeMismatch")
      [] OTHER -> NoArm

(***************************************************************************)
(* spec.md 4.3 and 4.4: values and the typing judgment. typing.rs holds    *)
(* only a commented-out type_of for the constants and TmSucc; the rest of  *)
(* the judgment is modelled from the specification.                        *)
(***************************************************************************)
RECURSIVE IsNumericVal(_)
IsNumericVal(t) ==
    \/ t = TmZero
    \/ t[1] = "TmSucc" /\ IsNumericVal(t[2])

IsVal(t) ==
    \/ t \in {TmTrue, TmFalse}
    \/ IsNumericVal(t)
    \/ t[1] = "TmAbs"

IsType(ty) == ty[1] \in {"Boolean", "Number", "Arrow"}

TypeMismatch(expected, found) == <<"TypeMismatch", expected, found>>
ArrowExpected(found) == <<"ArrowExpected", found>>
IndexOutOfRange == <<"IndexOutOfRange">>

\* typeOf(context, term): a Type, or the typing error. tctx is the type
\* context, most recently pushed first (position = de Bruijn index).
RECURSIVE typeOf(_, _)
typeOf(tctx, t) ==
    CASE t \in {TmTrue, TmFalse} -> Boolean
      [] t = TmZero -> Number
      [] t[1] = "TmSucc" ->
            LET a == typeOf(tctx, t[2])
            IN  IF ~IsType(a) THEN a
                ELSE IF a = Number THEN Number ELSE TypeMismatch(Number, a)
      [] t[1] = "TmVar" ->
            IF t[2] < Len(tctx) THEN tctx[t[2] + 1] ELSE IndexOutOfRange
      [] t[1] = "TmAbs" ->
            LET b == typeOf(<<t[2]>> \o tctx, t[3])
            IN  IF ~IsType(b) THEN b ELSE Arrow(t[2], b)
      [] t[1] = "TmApp" ->
            LET f == typeOf(tctx, t[2])
            IN  IF ~IsType(f) THEN f
                ELSE IF f[1] # "Arrow" THEN ArrowExpected(f)
                ELSE LET a == typeOf(tctx, t[3])
                     IN  IF ~IsType(a) THEN a
                         ELSE IF a = f[2] THEN f[3] ELSE TypeMismatch(f[2], a)
      [] t[1] = "TmIf" ->
            LET c == typeOf(tctx, t[2])
            IN  IF ~IsType(c) THEN c
                ELSE IF c # Boolean THEN TypeMismatch(Boolean, c)
                ELSE LET a == typeOf(tctx, t[3])
                         b == typeOf(tctx, t[4])
                     IN  IF ~IsType(a) THEN a
                         ELSE IF ~IsType(b) THEN b
                         ELSE IF a = b THEN a ELSE TypeMismatch(a, b)

\* spec.md 4.2: shift(term, cutoff, amount).
RECURSIVE SpecShift(_, _, _)
SpecShift(t, cutoff, amount) ==
    CASE IsConst(t) -> t
      [] t[1] = "TmSucc" -> TmSucc(SpecShift(t[2], cutoff, amount))
      [] t[1] = "TmVar" -> IF t[2] >= cutoff THEN TmVar(t[2] + amount) ELSE t
      [] t[1] = "TmAbs" -> TmAbs(t[2], SpecShift(t[3], cutoff + 1, amount))
      [] t[1] = "TmApp" ->
            TmApp(SpecShift(t[2], cutoff, amount), SpecShift(t[3], cutoff, amount))
      [] t[1] = "TmIf" ->
            TmIf(SpecShift(t[2], cutoff, amount), SpecShift(t[3], cutoff, amount),
                 SpecShift(t[4], cutoff, amount))

\* spec.md 4.2: substitute(term, target, replacement), cutoff starting at
\* the target.
RECURSIVE SpecSubstitute(_, _, _)
SpecSubstitute(t, cutoff, replacement) ==
    CASE IsConst(t) -> t
      [] t[1] = "TmSucc" -> TmSucc(SpecSubstitute(t[2], cutoff, replacement))
      [] t[1] = "TmVar" ->
            IF t[2] = cutoff THEN SpecShift(replacement, 0, cutoff)
            ELSE IF t[2] > cutoff THEN TmVar(t[2] - 1)
            ELSE t
      [] t[1] = "TmAbs" ->
            TmAbs(t[2], SpecSubstitute(t[3], cutoff + 1, replacement))
      [] t[1] = "TmApp" ->
            TmApp(SpecSubstitute(t[2], cutoff, replacement),
                  SpecSubstitute(t[3], cutoff, replacement))
      [] t[1] = "TmIf" ->
            TmIf(SpecSubstitute(t[2], cutoff, replacement),
                 SpecSubstitute(t[3], cutoff, replacement),
                 SpecSubstitute(t[4], cutoff, replacement))

\* A closed term the type checker accepts.
WellTyped(t) == IsType(typeOf(<<>>, t))

\* spec.md 3: every Var(n) under d enclosing Abs nodes has n < d.
RECURSIVE ClosedAt(_, _)
ClosedAt(t, d) ==
    CASE IsConst(t) -> TRUE
      [] t[1] = "TmSucc" -> ClosedAt(t[2], d)
      [] t[1] = "TmVar" -> t[2] < d
      [] t[1] = "TmAbs" -> ClosedAt(t[3], d + 1)
      [] t[1] = "TmApp" -> ClosedAt(t[2], d) /\ ClosedAt(t[3], d)
      [] t[1] = "TmIf" -> ClosedAt(t[2], d) /\ ClosedAt(t[3], d) /\ ClosedAt(t[4], d)

Closed(t) == ClosedAt(t, 0)

IsRedex(t) == t[1] = "TmApp" /\ t[2][1] = "TmAbs"

(***************************************************************************)
(* The evaluator as a state machine: a Term is drawn, and the operations   *)
(* of eval.rs and substitute.rs are applied to it.                         *)
(***************************************************************************)
ParserIdle ==
    /\ ast_term = None
    /\ context = <<>>
    /\ saved = <<>>
    /\ input = None

Init ==
    /\ term \in InputTerms
    /\ op = "init"
    /\ result = None
    /\ overflow_checks \in BOOLEAN
    /\ body_ref = None
    /\ ParserIdle

\* eval1(ctx, &term)
Eval1 ==
    /\ op' = "eval1"
    /\ result' = eval1(term)
    /\ UNCHANGED <<term, ast_term, context, saved, overflow_checks, input, body_ref>>

\* eval(ctx, &term)
Eval ==
    /\ op' = "eval"
    /\ result' = eval(term)
    /\ UNCHANGED <<term, ast_term, context, saved, overflow_checks, input, body_ref>>

\* The caller takes the term a step returned and steps it again.
StepAgain ==
    /\ op \in {"eval1", "eval"}
    /\ IsOk(result)
    /\ term' = result[2]
    /\ op' = "eval1"
    /\ result' = eval1(result[2])
    /\ UNCHANGED <<ast_term, context, saved, overflow_checks, input, body_ref>>

\* substitution(val, &mut body) on the parts of an application of an
\* abstraction, the call the beta rule makes.
Substitution ==
    /\ IsRedex(term)
    /\ op' = "substitution"
    /\ result' = LET r == substitution(term[3], term[2][3])
                 IN  IF r = Panic THEN Panic ELSE Ok(r)
    /\ body_ref' = IF IsOk(result') THEN result'[2] ELSE Panic
    /\ UNCHANGED <<term, ast_term, context, saved, overflow_checks, input>>

\* Substitution::new(val).visit_term(&mut body) on the parts of an
\* application of an abstraction: the substitution alone, without the shifts
\* around it.
Substitute ==
    /\ IsRedex(term)
    /\ op' = "substitute"
    /\ result' = LET r == SubstitutionVisit(term[3], term[2][3])
                 IN  IF r = Panic THEN Panic ELSE Ok(r)
    /\ body_ref' = IF IsOk(result') THEN result'[2] ELSE Panic
    /\ UNCHANGED <<term, ast_term, context, saved, overflow_checks, input>>

\* Shifting::new(Direction::Up).visit_term(&mut term)
ShiftUp ==
    /\ op' = "shift_up"
    /\ result' = LET r == Shift(term, "Up")
                 IN  IF r = Panic THEN Panic ELSE Ok(r)
    /\ body_ref' = IF IsOk(result') THEN result'[2] ELSE Panic
    /\ UNCHANGED <<term, ast_term, context, saved, overflow_checks, input>>

\* Shifting::new(Direction::Down).visit_term(&mut term)
ShiftDown ==
    /\ op' = "shift_down"
    /\ result' = LET r == Shift(term, "Down")
                 IN  IF r = Panic THEN Panic ELSE Ok(r)
    /\ body_ref' = IF IsOk(result') THEN result'[2] ELSE Panic
    /\ UNCHANGED <<term, ast_term, context, saved, overflow_checks, input>>

\* Shifting::new(Direction::Down).visit_term on the term a shift up left.
ShiftBack ==
    /\ op = "shift_up"
    /\ IsOk(result)
    /\ op' = "shift_up_down"
    /\ result' = LET r == Shift(result[2], "Down")
                 IN  IF r = Panic THEN Panic ELSE Ok(r)
    /\ body_ref' = IF IsOk(result') THEN result'[2] ELSE Panic
    /\ UNCHANGED <<term, ast_term, context, saved, overflow_checks, input>>

\* type_of(ctx, &term)
TypeOf ==
    /\ op' = "type_of"
    /\ result' = type_of(term)
    /\ UNCHANGED <<term, ast_term, context, saved, overflow_checks, input, body_ref>>

Next ==
    \/ Eval1
    \/ Eval
    \/ StepAgain
    \/ Substitution
    \/ ShiftUp
    \/ ShiftDown
    \/ ShiftBack
    \/ TypeOf
    \/ Substitute

Spec == Init /\ [][Next]_vars

(***************************************************************************)
(* parser.rs: ASTTerm, DeBruijnIndexer and Parser::from_ast_term.          *)
(***************************************************************************)
AstVar(id) == <<"TmVar", id>>
AstAbs(arg, ty, body) == <<"TmAbs", arg, ty, body>>
AstSucc(t) == <<"TmSucc", t>>
AstApp(l, r) == <<"TmApp", l, r>>

\* misc::ALPHABET, the one-letter identifiers parse_ident accepts.
Alphabet == <<"x", "y", "z", "w", "v", "u">>
Names == {Alphabet[i] : i \in 1..MaxNames}

AstLeaves == {TmTrue, TmFalse, TmZero} \cup {AstVar(id) : id \in Names}

RECURSIVE AstsOfSize(_)
AstsOfSize(n) ==
    IF n < 1 THEN {}
    ELSE IF n = 1 THEN AstLeaves
    ELSE {AstSucc(t) : t \in AstsOfSize(n - 1)}
         \cup {AstAbs(arg, Number, b) : arg \in Names, b \in AstsOfSize(n - 1)}
         \cup UNION {{AstApp(a, b) : a \in AstsOfSize(i), b \in AstsOfSize(n - 1 - i)}
                        : i \in 1..(n - 2)}

InputAsts == UNION {AstsOfSize(k) : k \in 1..MaxAstSize}

\* VecDeque::contains
Contains(inner, hint) == \E i \in 1..Len(inner) : inner[i] = hint

\* A faulty PushFront: the hint goes to the back of the deque.
PushBack(inner, hint) == Append(inner, hint)

\* VecDeque::push_front
PushFront(inner, hint) == <<hint>> \o inner

\* DeBruijnIndexer::push: when the hint is already in the deque the method
\* calls itself with the same deque and the same hint, so it never returns;
\* otherwise the hint goes to the front. The value is the new deque.
push(inner, hint) ==
    IF Contains(inner, hint) THEN NoReturn ELSE PushFront(inner, hint)

\* DeBruijnIndexer::pop: pop_front, a no-op on an empty deque.
pop(inner) == IF inner = <<>> THEN inner ELSE Tail(inner)

\* DeBruijnIndexer::lookup: the loop over inner.iter().enumerate(), from
\* position idx (0-based) on.
RECURSIVE LookupFrom(_, _, _)
LookupFrom(inner, key, idx) ==
    IF idx >= Len(inner) THEN None
    ELSE IF key = inner[idx + 1] THEN <<"Some", idx>>
    ELSE LookupFrom(inner, key, idx + 1)

lookup(inner, key) == LookupFrom(inner, key, 0)

\* The TmAbs arm after the body came back: `?` returns the body's failure at
\* once; otherwise the context is popped and the abstraction built.
\* r = <<outcome of the body, context after the body>>.
FromAstAbsTail(typ, r) ==
    IF IsOk(r[1]) THEN <<Ok(TmAbs(typ, r[1][2])), pop(r[2])>> ELSE r

\* Parser::from_ast_term with self.context.inner = inner:
\* <<the ParseResult (or NoReturn), self.context.inner afterwards>>.
RECURSIVE from_ast_term(_, _)
from_ast_term(inner, a) ==
    CASE IsConst(a) -> <<Ok(a), inner>>
      [] a[1] = "TmSucc" ->
            LET r == from_ast_term(inner, a[2])
            IN  IF IsOk(r[1]) THEN <<Ok(TmSucc(r[1][2])), r[2]>> ELSE r
      [] a[1] = "TmVar" ->
            LET i == lookup(inner, a[2])
            IN  IF i = None THEN <<Err(<<"UnboundVariable", a[2]>>), inner>>
                ELSE <<Ok(TmVar(i[2])), inner>>
      [] a[1] = "TmAbs" ->
            LET pushed == push(inner, a[2])
            IN  IF pushed = NoReturn THEN <<NoReturn, inner>>
                ELSE FromAstAbsTail(a[3], from_ast_term(pushed, a[4]))
      [] a[1] = "TmApp" ->
            LET l == from_ast_term(inner, a[2])
            IN  IF ~IsOk(l[1]) THEN l
                ELSE LET r == from_ast_term(l[2], a[3])
                     IN  IF IsOk(r[1]) THEN <<Ok(TmApp(l[1][2], r[1][2])), r[2]>> ELSE r

(***************************************************************************)
(* The resolver as a state machine: one Parser, whose context lives on     *)
(* across the calls of parse.                                              *)
(***************************************************************************)
InitResolve ==
    /\ term = None
    /\ ast_term = None
    /\ context = <<>>
    /\ saved = <<>>
    /\ op = "new"
    /\ result = None
    /\ overflow_checks = TRUE    \* the resolver does no arithmetic that can overflow
    /\ input = None
    /\ body_ref = None

\* Parser::parse once parse_term produced the ASTTerm a: from_ast_term(&a).
\* A call that never returns leaves nothing to be called afterwards.
Parse(a) ==
    /\ result # NoReturn
    /\ LET r == from_ast_term(context, a)
       IN  /\ result' = r[1]
           /\ context' = r[2]
    /\ ast_term' = a
    /\ saved' = context
    /\ op' = "parse"
    /\ UNCHANGED <<term, overflow_checks, input, body_ref>>

\* Parser::new(): a parser with an empty context replaces the used one.
ParserNew ==
    /\ op = "parse"
    /\ result # NoReturn
    /\ context' = <<>>
    /\ saved' = <<>>
    /\ ast_term' = None
    /\ result' = None
    /\ op' = "new"
    /\ UNCHANGED <<term, overflow_checks, input, body_ref>>

NextResolve ==
    \/ \E a \in InputAsts : Parse(a)
    \/ ParserNew

SpecResolve == InitResolve /\ [][NextResolve]_vars

(***************************************************************************)
(* 03_typed_arith/src/eval.rs: term_type over the Term of                  *)
(* 01_untyped_arith/src/parser.rs.                                         *)
(***************************************************************************)
TmPred(t) == <<"TmPred", t>>
TmIsZero(t) == <<"TmIsZero", t>>
Numeric == <<"Numeric">>

RECURSIVE ArithTermsOfSize(_)
ArithTermsOfSize(n) ==
    IF n < 1 THEN {}
    ELSE IF n = 1 THEN {TmTrue, TmFalse, TmZero}
    ELSE {TmSucc(t) : t \in ArithTermsOfSize(n - 1)}
         \cup {TmPred(t) : t \in ArithTermsOfSize(n - 1)}
         \cup {TmIsZero(t) : t \in ArithTermsOfSize(n - 1)}
         \cup UNION {UNION {{TmIf(a, b, c) : a \in ArithTermsOfSize(i),
                                              b \in ArithTermsOfSize(j),
                                              c \in ArithTermsOfSize(n - 1 - i - j)}
                               : j \in 1..(n - 2 - i)}
                        : i \in 1..(n - 3)}

\* Value::Numeric holds a u8.
U8Modulus == 2^8

\* Conditionals guarded by iszero of a small term.
IsZeroGuards ==
    {TmIf(TmIsZero(n), a, b) : n \in ArithTermsOfSize(1) \cup ArithTermsOfSize(2),
                               a \in ArithTermsOfSize(1),
                               b \in ArithTermsOfSize(1)}

ArithTerms ==
    UNION {ArithTermsOfSize(k) : k \in 1..MaxArithSize}
        \cup IsZeroGuards

\* The TmSucc, TmPred and TmIsZero arms: `match term_type(term)?`.
TermTypeNumericArm(r, t) ==
    IF ~IsOk(r) THEN r
    ELSE IF r[2] = Numeric THEN Ok(Numeric)
    ELSE Err(<<"MUST be Numeric", t>>)

\* A faulty TermTypeBranches: the two branch types are not compared.
TermTypeBranchesUnchecked(then_r, else_r, then_term, else_term) ==
    IF ~IsOk(then_r) THEN then_r
    ELSE IF ~IsOk(else_r) THEN else_r
    ELSE then_r

\* The TmIf arm with a Boolean condition: both branches are typed (`?`), and
\* their types compared.
TermTypeBranches(then_r, else_r, then_term, else_term) ==
    IF ~IsOk(then_r) THEN then_r
    ELSE IF ~IsOk(else_r) THEN else_r
    ELSE IF then_r[2] # else_r[2] THEN Err(<<"mismatch", then_term, else_term>>)
    ELSE then_r

\* The TmIf arm: the condition is typed first (`?`) and must be Boolean.
TermTypeIf(cond_r, then_r, else_r, t) ==
    IF ~IsOk(cond_r) THEN cond_r
    ELSE IF cond_r[2] = Boolean THEN TermTypeBranches(then_r, else_r, t[3], t[4])
    ELSE Err(<<"MUST be Boolean", t[2]>>)

RECURSIVE term_type(_)
term_type(t) ==
    CASE t \in {TmTrue, TmFalse} -> Ok(Boolean)
      [] t = TmZero -> Ok(Numeric)
      [] t[1] \in {"TmSucc", "TmPred", "TmIsZero"} ->
            TermTypeNumericArm(term_type(t[2]), t[2])
      [] t[1] = "TmIf" ->
            TermTypeIf(term_type(t[2]), term_type(t[3]), term_type(t[4]), t)

(***************************************************************************)
(* 03_typed_arith/src/eval.rs: Value and eval_term.                        *)
(***************************************************************************)
ValueBoolean(b) == <<"Boolean", b>>
ValueNumeric(n) == <<"Numeric", n>>

\* Term::is_zero: `self == &Term::TmZero`.
is_zero(t) == t = TmZero

\* number + 1 on a u8.
U8Succ(number) ==
    IF number + 1 = U8Modulus
    THEN (IF overflow_checks THEN Panic ELSE Ok(ValueNumeric(0)))
    ELSE Ok(ValueNumeric(number + 1))

\* number - 1 on a u8.
U8Pred(number) ==
    IF number = 0
    THEN (IF overflow_checks THEN Panic ELSE Ok(ValueNumeric(U8Modulus - 1)))
    ELSE Ok(ValueNumeric(number - 1))

\* The TmSucc arm: `if let Value::Numeric(number) = eval_term(term)?`.
EvalTermSucc(r, t) ==
    IF ~IsOk(r) THEN r
    ELSE IF r[2][1] = "Numeric" THEN U8Succ(r[2][2])
    ELSE Err(<<"MUST be Numeric", t>>)

\* The TmPred arm.
EvalTermPred(r, t) ==
    IF ~IsOk(r) THEN r
    ELSE IF r[2][1] = "Numeric" THEN U8Pred(r[2][2])
    ELSE Err(<<"MUST be Numeric", t>>)

\* The TmIsZero arm: the operand is typed, not evaluated, and compared with
\* TmZero.
EvalTermIsZero(ty, t) ==
    IF ~IsOk(ty) THEN ty
    ELSE IF ty[2] # Numeric THEN Err(<<"MUST be Numeric", t>>)
    ELSE Ok(ValueBoolean(is_zero(t)))

RECURSIVE eval_term(_)
eval_term(t) ==
    CASE t = TmTrue -> Ok(ValueBoolean(TRUE))
      [] t = TmFalse -> Ok(ValueBoolean(FALSE))
      [] t = TmZero -> Ok(ValueNumeric(0))
      [] t[1] = "TmSucc" -> EvalTermSucc(eval_term(t[2]), t[2])
      [] t[1] = "TmPred" -> EvalTermPred(eval_term(t[2]), t[2])
      [] t[1] = "TmIsZero" -> EvalTermIsZero(term_type(t[2]), t[2])
      [] t[1] = "TmIf" ->
            LET ty == term_type(t)
            IN  IF ~IsOk(ty) THEN ty
                ELSE LET cond == eval_term(t[2])
                     IN  IF ~IsOk(cond) THEN cond
                         ELSE IF cond[2][1] = "Boolean"
                              THEN (IF cond[2][2] THEN eval_term(t[3])
                                                  ELSE eval_term(t[4]))
                              ELSE Err(<<"MUST be Boolean", t[2]>>)

InitArith ==
    /\ term \in ArithTerms
    /\ op = "init"
    /\ result = None
    /\ overflow_checks \in BOOLEAN
    /\ body_ref = None
    /\ ParserIdle

\* term_type(&term)
TermType ==
    /\ op' = "term_type"
    /\ result' = term_type(term)
    /\ UNCHANGED <<term, ast_term, context, saved, overflow_checks, input, body_ref>>

\* eval_term(&term)
EvalTerm ==
    /\ op' = "eval_term"
    /\ result' = eval_term(term)
    /\ UNCHANGED <<term, ast_term, context, saved, overflow_checks, input, body_ref>>

NextArith ==
    \/ TermType
    \/ EvalTerm

SpecArith == InitArith /\ [][NextArith]_vars

(***************************************************************************)
(* type_parser.rs: the nom parsers of a type annotation. The &str is       *)
(* modelled as the sequence of its tokens; no parser skips white space.    *)
(***************************************************************************)
Tokens == {"Bool", "Nat", "->", " "}

RECURSIVE StrsOfLen(_)
StrsOfLen(n) ==
    IF n = 0 THEN {<<>>}
    ELSE {<<k>> \o s : k \in Tokens, s \in StrsOfLen(n - 1)}

InputStrs == UNION {StrsOfLen(n) : n \in 0..MaxTokens}

\* nom's tag(t)(input): Ok((rest, matched)) when the input starts with t.
tag(t, i) ==
    IF i # <<>> /\ Head(i) = t THEN Ok(<<Tail(i), t>>) ELSE Err("Error")

parse_boolean_type(i) ==
    LET r == tag("Bool", i)
    IN  IF IsOk(r) THEN Ok(<<r[2][1], Boolean>>) ELSE r

parse_number_type(i) ==
    LET r == tag("Nat", i)
    IN  IF IsOk(r) THEN Ok(<<r[2][1], Number>>) ELSE r

\* alt((parse_boolean_type, parse_number_type))
parse_atom_type(i) ==
    LET r == parse_boolean_type(i)
    IN  IF IsOk(r) THEN r ELSE parse_number_type(i)

\* tuple((tag_no_case("->"), parse_atom_type)), keeping the atom.
parse_arrow_type(i) ==
    LET a == tag("->", i)
    IN  IF ~IsOk(a) THEN a ELSE parse_atom_type(a[2][1])

\* many0(parse_arrow_type): <<rest, types>>; it stops at the first failure
\* of parse_arrow_type, giving back the input of that attempt.
RECURSIVE Many0ParseArrowType(_)
Many0ParseArrowType(i) ==
    LET r == parse_arrow_type(i)
    IN  IF ~IsOk(r) THEN <<i, <<>>>>
        ELSE LET m == Many0ParseArrowType(r[2][1])
             IN  <<m[1], <<r[2][2]>> \o m[2]>>

\* `let mut lhs = typ; types.into_iter().map(|typ| lhs = typ); lhs`: the Map
\* adaptor is lazy and is dropped without being consumed, so its closure
\* never runs and lhs is still the first atom.
ParseTypeFold(typ, types) == typ

parse_type(i) ==
    LET a == parse_atom_type(i)
    IN  IF ~IsOk(a) THEN a
        ELSE LET m == Many0ParseArrowType(a[2][1])
             IN  Ok(<<m[1], ParseTypeFold(a[2][2], m[2])>>)

InitType ==
    /\ input \in InputStrs
    /\ op = "init"
    /\ result = None
    /\ overflow_checks \in BOOLEAN
    /\ term = None
    /\ ast_term = None
    /\ context = <<>>
    /\ saved = <<>>
    /\ body_ref = None

\* parse_type(input)
ParseType ==
    /\ op' = "parse_type"
    /\ result' = parse_type(input)
    /\ UNCHANGED <<term, ast_term, context, saved, overflow_checks, input, body_ref>>

NextType == ParseType

SpecType == InitType /\ [][NextType]_vars

(***************************************************************************)
(* Properties.                                                             *)
(***************************************************************************)

\* C1 (progress): a closed term the type checker accepts is a value, or
\* eval1 returns a term for it.
C1_Progress ==
    (op = "eval1" /\ Closed(term) /\ WellTyped(term) /\ ~IsVal(term))
        => IsOk(result)

\* substitution(v, body) was applied to the parts of a closed well-typed
\* App(Abs(_, body), v) whose argument v is a value.
BetaStep ==
    /\ op = "substitution"
    /\ IsVal(term[3])
    /\ WellTyped(term)

\* C2 (preservation): when a step of a well-typed closed term returns a
\* term, that term has the type of the stepped term; the step is eval1/eval,
\* or the beta step substitution(v, body) of App(Abs(_, body), v), v a value.
C2_Preservation ==
    /\ (op \in {"eval1", "eval"} /\ WellTyped(term) /\ IsOk(result))
          => typeOf(<<>>, result[2]) = typeOf(<<>>, term)
    /\ (BetaStep /\ IsOk(result))
          => typeOf(<<>>, result[2]) = typeOf(<<>>, term)

\* A beta step that replaced an occurrence of the parameter and returned.
C2_Witness ==
    /\ BetaStep
    /\ IsOk(result)
    /\ result[2] # term[2][3]

\* C3 (capture avoidance): substitution on the parts of
\* App(Abs(_, Abs(_, Var(1))), z), z a value, leaves Abs(_, z shifted up by
\* one) in the body.
C3_CaptureAvoiding ==
    (/\ op = "substitution"
     /\ term[2][3][1] = "TmAbs"
     /\ term[2][3][3] = TmVar(1)
     /\ IsVal(term[3]))
        => result = Ok(TmAbs(term[2][3][2], Shift(term[3], "Up")))

\* C4 (shift round trip): shifting a term up and the result down, both from
\* cutoff 0, gives the term back, and neither pass overflows.
C4_ShiftRoundTrip ==
    /\ op = "shift_up" => IsOk(result)
    /\ op = "shift_up_down" => result = Ok(term)

\* A round trip of a term with a bound variable below the cutoff and a free one.
C4_Witness ==
    /\ op = "shift_up_down"
    /\ IsRedex(term)
    /\ term[2][3] = TmVar(0)
    /\ term[3] = TmVar(0)
    /\ result = Ok(term)

\* C5 (context restored): when from_ast_term returns, with a Term or with
\* UnboundVariable, the context is the one the call started with.
C5_ContextRestored ==
    (op = "parse" /\ result[1] \in {"Ok", "Err"}) => context = saved

\* C6 (shadowing): an abstraction whose body is lambda q. q resolves to
\* Abs(_, Abs(_, Var(0))), whatever the outer parameter is called.
C6_Shadowing ==
    (/\ op = "parse"
     /\ ast_term[1] = "TmAbs"
     /\ ast_term[4][1] = "TmAbs"
     /\ ast_term[4][4] = AstVar(ast_term[4][2]))
        => result = Ok(TmAbs(ast_term[3], TmAbs(ast_term[4][3], TmVar(0))))

\* The names bound by a chain of abstractions, innermost first.
RECURSIVE Enclosing(_)
Enclosing(a) ==
    IF a[1] = "TmAbs" THEN Enclosing(a[Len(a)]) \o <<a[2]>> ELSE <<>>

\* The node under a chain of abstractions.
RECURSIVE Innermost(_)
Innermost(a) == IF a[1] = "TmAbs" THEN Innermost(a[Len(a)]) ELSE a

\* The 0-based position of the first binding of id, most recent first.
FirstPosition(scope, id) ==
    (CHOOSE i \in 1..Len(scope) :
        scope[i] = id /\ \A j \in 1..(i - 1) : scope[j] # id) - 1

\* C7 (lookup): a variable under a chain of abstractions resolves to Var(i),
\* i the position of the first binding of its name counted from the most
\* recent binder (the enclosing binders, then the context the call started
\* with); with no such binding the call fails with UnboundVariable(name).
C7_Lookup ==
    (/\ op = "parse"
     /\ result # NoReturn
     /\ Innermost(ast_term)[1] = "TmVar")
        => LET scope == Enclosing(ast_term) \o saved
               id == Innermost(ast_term)[2]
           IN  IF Contains(scope, id)
               THEN /\ IsOk(result)
                    /\ Innermost(result[2]) = TmVar(FirstPosition(scope, id))
               ELSE result = Err(<<"UnboundVariable", id>>)

\* lambda p. lambda q. p from an empty context: one binder lies between the
\* occurrence and its binder.
C7_Witness ==
    /\ op = "parse"
    /\ saved = <<>>
    /\ Len(Enclosing(ast_term)) = 2
    /\ IsOk(result)
    /\ Innermost(result[2]) = TmVar(1)

\* C8 (evalFull): when eval reports success the term it returns is a value.
C8_EvalFull ==
    (op = "eval" /\ IsOk(result)) => IsVal(result[2])

\* from_ast_term on (lambda x:Nat. succ(x)) 0 with an empty context.
ScenarioA ==
    from_ast_term(<<>>, AstApp(AstAbs("x", Number, AstSucc(AstVar("x"))), TmZero))

\* C9 (scenario A): the term resolved from (lambda x:Nat. succ(x)) 0
\* evaluates to Succ(Zero).
C9_ScenarioA ==
    (op = "eval" /\ ScenarioA[1] = Ok(term)) => result = Ok(TmSucc(TmZero))

\* C10 (typing a conditional): term_type of If(c, t, e) fails when the type
\* of c is not Boolean and when the types of t and e differ, and is the
\* common type of the branches otherwise.
C10_IfTyping ==
    (op = "term_type" /\ term[1] = "TmIf")
        => LET c == term_type(term[2])
               t == term_type(term[3])
               e == term_type(term[4])
           IN  /\ (IsOk(c) /\ c[2] # Boolean)
                     => result = Err(<<"MUST be Boolean", term[2]>>)
               /\ (IsOk(t) /\ IsOk(e) /\ t[2] # e[2]) => ~IsOk(result)
               /\ (c = Ok(Boolean) /\ IsOk(t) /\ IsOk(e) /\ t[2] # e[2])
                     => result = Err(<<"mismatch", term[3], term[4]>>)
               /\ (c = Ok(Boolean) /\ IsOk(t) /\ IsOk(e) /\ t[2] = e[2])
                     => result = t

\* if 0 then true else false is rejected.
C10_Witness ==
    /\ op = "term_type"
    /\ term = TmIf(TmZero, TmTrue, TmFalse)
    /\ ~IsOk(result)

\* C11 (typing abstraction and application): type_of of an Abs or an App is
\* what the typing judgment gives: Arrow(paramType, bodyType) for an
\* abstraction, the result type for an application of an arrow to an
\* argument of its domain, and the typing error otherwise.
C11_AbsAppTyping ==
    (op = "type_of" /\ term[1] \in {"TmAbs", "TmApp"})
        => LET ty == typeOf(<<>>, term)
           IN  result = IF IsType(ty) THEN Ok(ty) ELSE Err(ty)

\* T1 -> T2 -> ... -> Tn as a Type: Arrow(T1, Arrow(T2, ... Tn)).
RECURSIVE RightAssoc(_)
RightAssoc(types) ==
    IF Len(types) = 1 THEN types[1]
    ELSE Arrow(Head(types), RightAssoc(Tail(types)))

\* C12 (arrow types): the type parse_type returns for atoms joined by arrows
\* is the right-nested Arrow of those atoms, so an annotation with at least
\* one arrow parses to an Arrow whose domain is the first atom.
C12_ArrowRightAssoc ==
    (op = "parse_type" /\ IsOk(result))
        => LET a == parse_atom_type(input)
               m == Many0ParseArrowType(a[2][1])
           IN  result[2][2] = RightAssoc(<<a[2][2]>> \o m[2])

\* C13 (the three cases of substitute): the Substitution visitor started at
\* cutoff 0 leaves in the body what substitute(body, 0, replacement) is:
\* Var(n) at cutoff c becomes the replacement shifted up by c when n = c,
\* Var(n - 1) when n > c, and stays Var(n) when n < c.
C13_SubstituteCases ==
    (op = "substitute")
        => result = Ok(SpecSubstitute(term[2][3], 0, term[3]))

\* C14 (closedness under reduction): a step of a closed term returns a
\* closed term, and substitution on the parts of a closed application of an
\* abstraction leaves a closed term in the body.
C14_ClosedPreserved ==
    /\ (op \in {"eval1", "eval"} /\ Closed(term) /\ IsOk(result))
            => Closed(result[2])
    /\ (op = "substitution" /\ Closed(term) /\ IsOk(result))
            => Closed(result[2])

\* The bound variable of a closed (lambda. 0) v was replaced by v.
C14_Witness ==
    /\ op = "substitution"
    /\ Closed(term)
    /\ term[2][3] = TmVar(0)
    /\ result = Ok(term[3])
    /\ Closed(result[2])

\* C15 (call by value, left to right): eval1 of App(t1, t2) steps t1 while
\* t1 steps, steps t2 once t1 is a value, and returns a term for an
\* abstraction applied to a value.
C15_CallByValue ==
    (op = "eval1" /\ term[1] = "TmApp")
        => LET l == eval1(term[2])
               r == eval1(term[3])
           IN  /\ IsOk(l) => result = Ok(TmApp(l[2], term[3]))
               /\ (IsVal(term[2]) /\ IsOk(r)) => result = Ok(TmApp(term[2], r[2]))
               /\ (term[2][1] = "TmAbs" /\ IsVal(term[3])) => IsOk(result)

\* C16 (one step of a conditional): eval1 of If(True, t2, t3) is t2 and of
\* If(False, t2, t3) is t3, neither branch evaluated; for any other guard t1
\* it is If(t1', t2, t3) with t1' one step of t1 and the branches as they
\* were, NoRuleApplies when no rule applies to t1, and in general the
\* failure of the step of t1.
C16_IfStep ==
    (op = "eval1" /\ term[1] = "TmIf")
        => LET g == eval1(term[2])
           IN  /\ term[2] = TmTrue => result = Ok(term[3])
               /\ term[2] = TmFalse => result = Ok(term[4])
               /\ (term[2] \notin {TmTrue, TmFalse} /\ IsOk(g))
                     => result = Ok(TmIf(g[2], term[3], term[4]))
               /\ (term[2] \notin {TmTrue, TmFalse} /\ g = Err("NoRuleApplies"))
                     => result = Err("NoRuleApplies")
               /\ (term[2] \notin {TmTrue, TmFalse} /\ ~IsOk(g))
                     => result = g

\* The guard if true then false else true took its one step.
C16_Witness ==
    /\ op = "eval1"
    /\ term = TmIf(TmIf(TmTrue, TmFalse, TmTrue), TmZero, TmTrue)
    /\ result = Ok(TmIf(TmFalse, TmZero, TmTrue))

\* C17 (operands unchanged): after substitution on the parts of
\* App(Abs(_, body), v) the body the caller passed is what it was before the
\* call, and after a shift the shifted operand is what it was.
C17_OperandsUnchanged ==
    /\ (op = "substitution" /\ IsOk(result)) => body_ref = term[2][3]
    /\ (op \in {"shift_up", "shift_down"} /\ IsOk(result)) => body_ref = term

\* C18 (resolution terminates): every call of from_ast_term returns, with a
\* Term or with UnboundVariable, also when a parameter name of the AST is
\* already in the context.
C18_ResolveTerminates ==
    op = "parse" => result # NoReturn

\* How many TmSucc are nested over the TmZero of a numeral; -1 for a term
\* that is not a numeral.
RECURSIVE NumeralOf(_)
NumeralOf(t) ==
    IF t = TmZero THEN 0
    ELSE IF t[1] = "TmSucc"
         THEN (LET n == NumeralOf(t[2]) IN IF n < 0 THEN n ELSE n + 1)
         ELSE -1

\* C19 (unary numbers, no overflow): eval_term of n nested TmSucc over
\* TmZero is the number n, and eval_term of Succ(t) / Pred(t) is one more /
\* one less than the number t evaluates to, never a wrapped number and never
\* an overflow panic.
C19_NoOverflow ==
    op = "eval_term"
        => /\ result # Panic
           /\ NumeralOf(term) >= 0 => result = Ok(ValueNumeric(NumeralOf(term)))
           /\ \A n \in 0..(U8Modulus - 1) :
                  /\ (term[1] = "TmSucc" /\ eval_term(term[2]) = Ok(ValueNumeric(n)))
                        => result = Ok(ValueNumeric(n + 1))
                  /\ (term[1] = "TmPred" /\ eval_term(term[2]) = Ok(ValueNumeric(n)))
                        => result = Ok(ValueNumeric(n - 1))

\* C20 (type checker and evaluator agree): when term_type gives Boolean,
\* eval_term returns a Boolean value, when it gives Numeric a Numeric value;
\* a conditional whose guard is iszero of a numeric term, with branches of
\* one type, is evaluated to a value.
C20_TypeAgreesWithValue ==
    (op = "eval_term" /\ result # Panic)
        => /\ term_type(term) = Ok(Boolean)
                 => (IsOk(result) /\ result[2][1] = "Boolean")
           /\ term_type(term) = Ok(Numeric)
                 => (IsOk(result) /\ result[2][1] = "Numeric")
           /\ (/\ term[1] = "TmIf"
               /\ term[2][1] = "TmIsZero"
               /\ term_type(term[2][2]) = Ok(Numeric)
               /\ IsOk(term_type(term[3]))
               /\ term_type(term[3]) = term_type(term[4]))
                 => IsOk(result)

====
